---- MODULE Spec2Model ----
(***************************************************************************)
(* Roadtrip: the in-memory Waypoint Store (useWaypoints), the reactive     *)
(* Route Resolver hook (useRoute) and the Route Persistence Gateway (the   *)
(* tRPC routeRouter over the drizzle repositories).                        *)
(***************************************************************************)
EXTENDS Integers, Sequences, FiniteSets, TLC

VARIABLES
    dbRoutes,        \* rows of table routes
    dbWaypoints,     \* rows of table waypoints
    nextRouteId,     \* routes.id defaultRandom(): ids handed out so far
    nextWaypointId,  \* waypoints.id defaultRandom(): ids handed out so far
    calls,           \* tRPC calls in flight: call slot -> handler position
    now,             \* the wall clock: Date.now(), new Date(), the database's now()
    waypoints,       \* useWaypoints: the Waypoint Sequence
    lookups,         \* reverseGeocode calls awaited by addWaypoint / handleUpdateWaypoint
    route,           \* useRoute: the displayed Route Data
    loading,         \* useRoute: the loading flag
    fetches,         \* useRoute: getRoute() calls awaiting fetchRoute
    stale,           \* waypoints changed and useRoute's effect has not run yet
    settings,        \* useCostSettings: the Cost Settings
    costCall,        \* the last call of the cost calculator: arguments and results
    saving,          \* handleSaveRoute: the save awaiting routes.create
    search           \* SearchPanel and useSearch: query, suggestions, timer, requests

gatewayVars == <<dbRoutes, dbWaypoints, nextRouteId, nextWaypointId, calls>>

clientVars == <<now, waypoints, lookups, route, loading, fetches, stale>>

pageVars == <<settings, costCall, saving, search>>

vars == <<dbRoutes, dbWaypoints, nextRouteId, nextWaypointId, calls,
          now, waypoints, lookups, route, loading, fetches, stale,
          settings, costCall, saving, search>>

----------------------------------------------------------------------------
(* Bounds and input domains of the gateway                                 *)

MaxRoutes == 1
MaxWaypointRows == 2

\* ctx.userId: two signed-in users; NoUser is a request with no identity
Users == {"userX", "userY"}
NoUser == ""
Callers == Users \cup {NoUser}

Undefined == "undefined"

\* a coordinate, a JavaScript number: sign, whole degrees, and the
\* decimal places counted in 1e-9 degrees
NanosPerDegree == 1000000000
Nano(n) == [sign |-> 1, deg |-> 0, nano |-> n]
Degrees(d) ==
    [sign |-> IF d < 0 THEN -1 ELSE 1, deg |-> IF d < 0 THEN -d ELSE d,
     nano |-> 0]

\* waypoints as supplied in a request body; WaypointB's latitude has nine
\* decimal places
WaypointA == [latitude |-> Nano(10), longitude |-> Nano(20), name |-> "A"]
WaypointB == [latitude |-> Nano(34), longitude |-> Nano(40), name |-> "B"]
\* the waypoint of an addWaypoint body
WaypointInputs == { WaypointA }
\* the waypoints arrays of create and update bodies
WaypointArrays == { <<>>, <<WaypointA>>, <<WaypointB, WaypointA>> }

RouteIds == 1..MaxRoutes
WaypointIds == 1..MaxWaypointRows

\* the slot of calls served one after the other, and the slots of two
\* clients calling at the same time
Slots == {"c1"}
Writer == "c1"
Reader == "c2"
ConcurrentSlots == {Writer, Reader}

----------------------------------------------------------------------------
(* Responses                                                               *)

NoRoute == [id |-> 0, user_id |-> NoUser, name |-> Undefined,
            description |-> Undefined, created_at |-> 0, updated_at |-> 0]

Response(status, routeRow, rows) ==
    [status |-> status, route |-> routeRow, waypoints |-> rows,
     routes |-> <<>>]

Ok(routeRow, rows) == Response("ok", routeRow, rows)
Failure(status) == Response(status, NoRoute, <<>>)

\* the array routes.list returns
Listed(routesWithWaypoints) ==
    [Ok(NoRoute, <<>>) EXCEPT !.routes = routesWithWaypoints]

NoResponse == Failure("none")

\* A call slot: the procedure called (op), its position (pc), what it holds across its
\* awaits (the route id, the input waypoints, the route row read or
\* created, the route rows listed, nextPosition) and, once it has
\* returned, its response
Idle ==
    [op |-> "none", pc |-> "idle", id |-> 0, waypoints |-> <<>>, route |-> NoRoute,
     routes |-> <<>>, nextPosition |-> 0, result |-> NoResponse]

Done(op, result) ==
    [Idle EXCEPT !.op = op, !.pc = "done", !.result = result]

\* A slot takes a new call once its last call has returned; the last
\* response stays readable until then
Free(c) == calls[c].pc \in {"idle", "done"}

----------------------------------------------------------------------------
(* Repositories: lib/db/repositories/routes and .../waypoints              *)

Max(S) == CHOOSE x \in S : \A y \in S : y <= x

RECURSIVE Orderings(_)
Orderings(S) ==
    IF S = {} THEN { <<>> }
    ELSE UNION { { <<x>> \o p : p \in Orderings(S \ {x}) } : x \in S }

\* .orderBy(asc(waypoints.position)): any order the database may return
\* for the rows, rows of equal position in either order
OrderedByPosition(rows) ==
    { s \in Orderings(rows) :
        \A i \in 1..Len(s), j \in 1..Len(s) :
            i < j => s[i].position <= s[j].position }

\* insert(routes).values({...routeData, user_id}).returning(); created_at
\* and updated_at take their column default, now()
createRoute(id, userId, name, description) ==
    [id |-> id, user_id |-> userId, name |-> name, description |-> description,
     created_at |-> now, updated_at |-> now]

\* the select without its user_id condition
getRoutesByUserId_everyone(userId) == dbRoutes

\* select from routes where user_id = userId
getRoutesByUserId(userId) ==
    { r \in dbRoutes : r.user_id = userId }

\* .orderBy(desc(routes.created_at)): any order the database may return
\* for the rows, rows of equal created_at in either order
OrderedByCreatedAtDesc(rows) ==
    { s \in Orderings(rows) :
        \A i \in 1..Len(s), j \in 1..Len(s) :
            i < j => s[i].created_at >= s[j].created_at }

\* the select without its user_id condition
getRouteWithWaypoints_anyOwner(routeId, userId) ==
    { r \in dbRoutes : r.id = routeId }

\* select from routes where id = routeId and user_id = userId
getRouteWithWaypoints(routeId, userId) ==
    { r \in dbRoutes : r.id = routeId /\ r.user_id = userId }

\* select from waypoints where route_id = routeId
getWaypointsByRouteId(routeId) ==
    { w \in dbWaypoints : w.route_id = routeId }

\* update(routes) ... where id = routeId and user_id = userId: the rows hit
updateRouteWhere(routeId, userId) ==
    { r \in dbRoutes : r.id = routeId /\ r.user_id = userId }

\* update(routes).set({...updateData, updated_at: new Date()}): the table
\* afterwards
updateRoute(routeId, userId, name, description) ==
    { IF r \in updateRouteWhere(routeId, userId)
        THEN [r EXCEPT
                !.name = IF name # Undefined THEN name ELSE @,
                !.description =
                    IF description # Undefined THEN description ELSE @,
                !.updated_at = now]
        ELSE r : r \in dbRoutes }

\* delete(routes) where id = routeId and user_id = userId: the rows deleted
deleteRoute(routeId, userId) ==
    { r \in dbRoutes : r.id = routeId /\ r.user_id = userId }

\* the foreign key without onDelete: 'cascade'
onDeleteCascade_none(deleted) == dbWaypoints

\* waypoints.route_id references routes.id, onDelete: 'cascade':
\* the waypoint rows left once the routes `deleted` are gone
onDeleteCascade(deleted) ==
    { w \in dbWaypoints : w.route_id \notin { r.id : r \in deleted } }

\* waypoints.route_id references routes.id: an insert naming no stored
\* route is refused by the database
ForeignKeyHolds(routeId) == \E r \in dbRoutes : r.id = routeId

\* delete(waypoints) where id = waypointId: the rows deleted
deleteWaypoint(waypointId) ==
    { w \in dbWaypoints : w.id = waypointId }

\* decimal(.., scale: 8): 1e-8 degrees, in units of 1e-9 degrees
DecimalStep == 10

\* latitude.toString() stored in a decimal(10, 8) / decimal(11, 8) column:
\* the database rounds the number to 8 decimal places, half away from zero
decimal(x) ==
    LET rounded ==
          ((2 * x.nano + DecimalStep) \div (2 * DecimalStep)) * DecimalStep
    IN IF rounded = NanosPerDegree
         THEN [x EXCEPT !.deg = @ + 1, !.nano = 0]
         ELSE [x EXCEPT !.nano = rounded]

\* a numeric column of the given precision and scale 8 takes the rounded
\* value when its whole part has no more than precision - 8 digits; else
\* the insert fails with a numeric field overflow
Fits(x, precision) ==
    IF precision = 10 THEN decimal(x).deg < 100 ELSE decimal(x).deg < 1000

\* every coordinate of the waypoints fits its column: latitude
\* decimal(10, 8), longitude decimal(11, 8)
InsertFits(wps) ==
    \A i \in DOMAIN wps :
        Fits(wps[i].latitude, 10) /\ Fits(wps[i].longitude, 11)

\* The router's waypointsData: one row per array element, position = index,
\* as the insert stores them
waypointsData(routeId, wps) ==
    [ i \in 1..Len(wps) |->
        [id |-> nextWaypointId + i,
         route_id |-> routeId,
         position |-> i - 1,
         latitude |-> decimal(wps[i].latitude),
         longitude |-> decimal(wps[i].longitude),
         name |-> wps[i].name] ]

Range(s) == { s[i] : i \in DOMAIN s }

\* An insert of n rows can succeed: the referenced route is stored and
\* the table has room for the rows
CanInsert(routeId, n) ==
    /\ ForeignKeyHolds(routeId)
    /\ nextWaypointId + n <= MaxWaypointRows

----------------------------------------------------------------------------
(* The tRPC router: lib/trpc/routes (routeRouter)                          *)

\* a middleware that lets every call through
protectedProcedure_open(user) == TRUE

\* protectedProcedure: a call with no (or an empty) userId is rejected
\* before the handler runs
protectedProcedure(user) == user # NoUser

Unauthorized(c, op) ==
    /\ calls' = [calls EXCEPT ![c] = Done(op, Failure("UNAUTHORIZED"))]
    /\ UNCHANGED <<dbRoutes, dbWaypoints, nextRouteId, nextWaypointId>>

\* the input parser rejects the call before the handler runs
BadRequest(c, op) ==
    /\ calls' = [calls EXCEPT ![c] = Done(op, Failure("BAD_REQUEST"))]
    /\ UNCHANGED <<dbRoutes, dbWaypoints, nextRouteId, nextWaypointId>>

\* create's input: name: z.string().min(1)
createInput(name) == name # Undefined /\ name # ""

\* update's input: name: z.string().optional()
updateInput(name) == TRUE

\* routes.create up to its first await: the route row is inserted
routes_create(c, user, name, description, wps) ==
    /\ UNCHANGED <<clientVars, pageVars>>
    /\ Free(c)
    /\ IF ~protectedProcedure(user)
         THEN Unauthorized(c, "create")
       ELSE IF ~createInput(name)
         THEN BadRequest(c, "create")
         ELSE /\ LET created == createRoute(nextRouteId + 1, user, name, description)
                 IN /\ dbRoutes' = dbRoutes \cup {created}
                    /\ nextRouteId' = nextRouteId + 1
                    /\ calls' = [calls EXCEPT ![c] =
                         IF Len(wps) > 0
                           THEN [Idle EXCEPT !.op = "create", !.pc = "createWaypoints",
                                             !.id = created.id,
                                             !.waypoints = wps, !.route = created]
                           ELSE Done("create", Ok(created, <<>>))]
              /\ UNCHANGED <<dbWaypoints, nextWaypointId>>

\* routes.create, second await: waypointRepository.createWaypoints; the
\* insert either stores every row or fails and throws out of the handler
routes_create_createWaypoints(c) ==
    /\ UNCHANGED <<clientVars, pageVars>>
    /\ calls[c].pc = "createWaypoints"
    /\ LET call == calls[c]
           rows == waypointsData(call.id, call.waypoints)
       IN \E stored \in BOOLEAN :
            /\ stored => CanInsert(call.id, Len(rows))
            /\ stored => InsertFits(call.waypoints)
            /\ dbWaypoints' = IF stored THEN dbWaypoints \cup Range(rows)
                                        ELSE dbWaypoints
            /\ nextWaypointId' = IF stored THEN nextWaypointId + Len(rows)
                                           ELSE nextWaypointId
            /\ calls' = [calls EXCEPT ![c] =
                 Done("create", IF stored THEN Ok(call.route, <<>>)
                                ELSE Failure("StorageFailure"))]
    /\ UNCHANGED <<dbRoutes, nextRouteId>>

\* routes.list up to its first await: nothing for a caller without
\* identity, else the caller's route rows are selected
routes_list(c, user) ==
    /\ UNCHANGED <<clientVars, pageVars>>
    /\ Free(c)
    /\ IF user = NoUser
         THEN calls' = [calls EXCEPT ![c] = Done("list", Listed(<<>>))]
         ELSE \E rows \in OrderedByCreatedAtDesc(getRoutesByUserId(user)) :
                calls' = [calls EXCEPT ![c] =
                    [Idle EXCEPT !.op = "list", !.pc = "listWaypoints",
                                 !.routes = rows]]
    /\ UNCHANGED <<dbRoutes, dbWaypoints, nextRouteId, nextWaypointId>>

\* routes.list, Promise.all over the rows: getWaypointsByRouteId for each
\* route, the selects issued together
routes_list_getWaypoints(c) ==
    /\ UNCHANGED <<clientVars, pageVars>>
    /\ calls[c].pc = "listWaypoints"
    /\ LET rows == calls[c].routes
           Selected(i) == OrderedByPosition(getWaypointsByRouteId(rows[i].id))
       IN \E selects \in [DOMAIN rows -> UNION { Selected(i) : i \in DOMAIN rows }] :
            /\ \A i \in DOMAIN rows : selects[i] \in Selected(i)
            /\ calls' = [calls EXCEPT ![c] =
                 Done("list", Listed(
                    [ i \in DOMAIN rows |->
                        [route |-> rows[i], waypoints |-> selects[i]] ]))]
    /\ UNCHANGED <<dbRoutes, dbWaypoints, nextRouteId, nextWaypointId>>

\* routes.get up to its first await: the route row is selected
routes_get(c, user, id) ==
    /\ UNCHANGED <<clientVars, pageVars>>
    /\ Free(c)
    /\ LET found == getRouteWithWaypoints(id, user)
       IN calls' = [calls EXCEPT ![c] =
            IF user = NoUser THEN Done("get", Failure("Unauthorized"))
            ELSE IF found = {}
              THEN Done("get", Failure("Route not found"))
              ELSE [Idle EXCEPT !.op = "get", !.pc = "getWaypoints",
                                !.id = id,
                                !.route = CHOOSE r \in found : TRUE]]
    /\ UNCHANGED <<dbRoutes, dbWaypoints, nextRouteId, nextWaypointId>>

\* routes.get, second select of getRouteWithWaypoints: the waypoints of
\* the route ordered by position
routes_get_waypoints(c) ==
    /\ UNCHANGED <<clientVars, pageVars>>
    /\ calls[c].pc = "getWaypoints"
    /\ LET call == calls[c]
       IN \E rows \in OrderedByPosition(getWaypointsByRouteId(call.id)) :
            calls' = [calls EXCEPT ![c] =
                        Done("get", Ok(call.route, rows))]
    /\ UNCHANGED <<dbRoutes, dbWaypoints, nextRouteId, nextWaypointId>>

\* the delete and the insert each committed on its own: a failed insert
\* leaves the route without waypoints
replaceWaypoints_noTransaction(c, id, wps) ==
    LET rows == waypointsData(id, wps)
    IN \E inserted \in BOOLEAN :
         /\ inserted => (Len(wps) = 0 \/ CanInsert(id, Len(wps)))
         /\ inserted => InsertFits(wps)
         /\ dbWaypoints' =
              (dbWaypoints \ getWaypointsByRouteId(id))
                \cup (IF inserted THEN Range(rows) ELSE {})
         /\ nextWaypointId' = IF inserted THEN nextWaypointId + Len(wps)
                                          ELSE nextWaypointId
         /\ calls' = [calls EXCEPT ![c] =
              Done("update", IF inserted THEN Ok(NoRoute, <<>>)
                                ELSE Failure("StorageFailure"))]

\* waypointRepository.replaceWaypoints: one transaction that deletes the
\* route's rows and inserts the new ones; it commits as a whole or, when
\* the insert fails, rolls back and throws
replaceWaypoints(c, id, wps) ==
    LET rows == waypointsData(id, wps)
    IN \E committed \in BOOLEAN :
         /\ committed => (Len(wps) = 0 \/ CanInsert(id, Len(wps)))
         /\ committed => InsertFits(wps)
         /\ dbWaypoints' =
              IF committed
                THEN (dbWaypoints \ getWaypointsByRouteId(id)) \cup Range(rows)
                ELSE dbWaypoints
         /\ nextWaypointId' = IF committed THEN nextWaypointId + Len(wps)
                                           ELSE nextWaypointId
         /\ calls' = [calls EXCEPT ![c] =
              Done("update", IF committed THEN Ok(NoRoute, <<>>)
                                ELSE Failure("StorageFailure"))]

\* routes.update up to its first await: the metadata update when a name
\* or a description is supplied, else the waypoint replacement
routes_update(c, user, id, name, description, hasWaypoints, wps) ==
    /\ UNCHANGED <<clientVars, pageVars>>
    /\ Free(c)
    /\ ~hasWaypoints => wps = <<>>
    /\ IF ~protectedProcedure(user)
         THEN Unauthorized(c, "update")
       ELSE IF ~updateInput(name)
         THEN BadRequest(c, "update")
       ELSE IF name # Undefined \/ description # Undefined
         THEN IF updateRouteWhere(id, user) = {}
                THEN /\ calls' = [calls EXCEPT ![c] =
                          Done("update", Failure("Unauthorized: You can only update your own routes"))]
                     /\ UNCHANGED <<dbRoutes, dbWaypoints, nextRouteId,
                                    nextWaypointId>>
                ELSE /\ dbRoutes' = updateRoute(id, user, name, description)
                     /\ calls' = [calls EXCEPT ![c] =
                          IF hasWaypoints
                            THEN [Idle EXCEPT !.op = "update", !.pc = "replaceWaypoints",
                                              !.id = id,
                                              !.waypoints = wps]
                            ELSE Done("update", Ok(NoRoute, <<>>))]
                     /\ UNCHANGED <<dbWaypoints, nextRouteId, nextWaypointId>>
       ELSE IF hasWaypoints
         THEN /\ replaceWaypoints(c, id, wps)
              /\ UNCHANGED <<dbRoutes, nextRouteId>>
       ELSE /\ calls' = [calls EXCEPT ![c] =
                          Done("update", Ok(NoRoute, <<>>))]
            /\ UNCHANGED <<dbRoutes, dbWaypoints, nextRouteId, nextWaypointId>>

\* routes.update, second await: the waypoint replacement after the
\* metadata update
routes_update_replaceWaypoints(c) ==
    /\ UNCHANGED <<clientVars, pageVars>>
    /\ calls[c].pc = "replaceWaypoints"
    /\ replaceWaypoints(c, calls[c].id, calls[c].waypoints)
    /\ UNCHANGED <<dbRoutes, nextRouteId>>

\* routes.delete
routes_delete(c, user, id) ==
    /\ UNCHANGED <<clientVars, pageVars>>
    /\ Free(c)
    /\ IF ~protectedProcedure(user)
         THEN Unauthorized(c, "delete")
         ELSE LET deleted == deleteRoute(id, user)
              IN /\ dbRoutes' = dbRoutes \ deleted
                 /\ dbWaypoints' = onDeleteCascade(deleted)
                 /\ calls' = [calls EXCEPT ![c] =
                      Done("delete", IF deleted = {}
                             THEN Failure("Unauthorized: You can only delete your own routes")
                             ELSE Ok(NoRoute, <<>>))]
                 /\ UNCHANGED <<nextRouteId, nextWaypointId>>

\* routes.addWaypoint up to its first await: the ownership check through
\* getRouteWithWaypoints (whose waypoint select the handler does not use)
routes_addWaypoint(c, user, routeId, wp) ==
    /\ UNCHANGED <<clientVars, pageVars>>
    /\ Free(c)
    /\ IF ~protectedProcedure(user)
         THEN Unauthorized(c, "addWaypoint")
         ELSE /\ calls' = [calls EXCEPT ![c] =
                   IF getRouteWithWaypoints(routeId, user) = {}
                     THEN Done("addWaypoint", Failure("Unauthorized: You can only add waypoints to your own routes"))
                     ELSE [Idle EXCEPT !.op = "addWaypoint", !.pc = "getWaypointsByRouteId",
                                       !.id = routeId,
                                       !.waypoints = <<wp>>]]
              /\ UNCHANGED <<dbRoutes, dbWaypoints, nextRouteId, nextWaypointId>>

\* the highest existing position itself, or 0 with no waypoints
nextPosition_max(existingWaypoints) ==
    IF existingWaypoints # {}
      THEN Max({ w.position : w \in existingWaypoints })
      ELSE 0

\* nextPosition: max of the existing positions + 1, or 0 with no waypoints
nextPosition(existingWaypoints) ==
    IF existingWaypoints # {}
      THEN Max({ w.position : w \in existingWaypoints }) + 1
      ELSE 0

\* routes.addWaypoint, second await: the existing waypoints are read
routes_addWaypoint_getWaypoints(c) ==
    /\ UNCHANGED <<clientVars, pageVars>>
    /\ calls[c].pc = "getWaypointsByRouteId"
    /\ calls' = [calls EXCEPT ![c] =
         [@ EXCEPT !.pc = "createWaypoint",
                   !.nextPosition =
                       nextPosition(getWaypointsByRouteId(calls[c].id))]]
    /\ UNCHANGED <<dbRoutes, dbWaypoints, nextRouteId, nextWaypointId>>

\* routes.addWaypoint, third await: waypointRepository.createWaypoint
routes_addWaypoint_createWaypoint(c) ==
    /\ UNCHANGED <<clientVars, pageVars>>
    /\ calls[c].pc = "createWaypoint"
    /\ LET call == calls[c]
           row == [waypointsData(call.id, call.waypoints)[1]
                     EXCEPT !.position = call.nextPosition]
       IN \E stored \in BOOLEAN :
            /\ stored => CanInsert(call.id, 1)
            /\ stored => InsertFits(call.waypoints)
            /\ dbWaypoints' = IF stored THEN dbWaypoints \cup {row}
                                        ELSE dbWaypoints
            /\ nextWaypointId' = IF stored THEN nextWaypointId + 1
                                           ELSE nextWaypointId
            /\ calls' = [calls EXCEPT ![c] =
                 Done("addWaypoint", IF stored THEN Ok(NoRoute, <<row>>)
                                ELSE Failure("StorageFailure"))]
    /\ UNCHANGED <<dbRoutes, nextRouteId>>

\* routes.removeWaypoint
routes_removeWaypoint(c, user, id) ==
    /\ UNCHANGED <<clientVars, pageVars>>
    /\ Free(c)
    /\ IF ~protectedProcedure(user)
         THEN Unauthorized(c, "removeWaypoint")
         ELSE LET deleted == deleteWaypoint(id)
              IN /\ dbWaypoints' = dbWaypoints \ deleted
                 /\ calls' = [calls EXCEPT ![c] =
                      Done("removeWaypoint", IF deleted = {} THEN Failure("Waypoint not found")
                                           ELSE Ok(NoRoute, <<>>))]
                 /\ UNCHANGED <<dbRoutes, nextRouteId, nextWaypointId>>

----------------------------------------------------------------------------
(* The client: hooks/useWaypoints, hooks/useRoute, lib/geocoding,          *)
(* lib/routing and the handlers of app/page                                *)

MaxClock == 1
MaxWaypoints == 2
MaxLookups == 2
MaxFetches == 2

\* where the user can click or drop a marker: <<lng, lat>>
Points == { <<Nano(20), Nano(10)>>, <<Nano(40), Nano(30)>> }

\* waypoint-${Date.now()}: the ids the store can hand out
ClientIds == 0..MaxClock

Placeholder == <<"...">>

\* reverseGeocode never throws: it answers with the place found, with
\* "Location at <lat>, <lng>" when nothing is found, or with
\* "Waypoint (<lat>, <lng>)" when the request fails
reverseGeocode(lng, lat) ==
    { <<"place", lng, lat>>,
      <<"Location at", lat, lng>>,
      <<"Waypoint", lat, lng>> }

NullRoute == [found |-> FALSE, coordinates |-> <<>>]

Coordinates(wps) == [ i \in 1..Len(wps) |-> <<wps[i].lng, wps[i].lat>> ]

\* what becomes of the request to the directions provider: a body with
\* routes, a body with an empty routes array, an error body without
\* routes, or a rejected fetch() or json()
ProviderAnswers == { "route", "zero routes", "error response", "network error" }

\* an exception leaving fetchRoute
Thrown == [thrown |-> TRUE]

\* a try block without its catch
catchError_rethrown(answer) == Thrown

\* catch (error) { console.error(...); return null; }
catchError(answer) == NullRoute

\* fetchRoute after its length test: the request and what is made of
\* its answer
directions(coordinates, answer) ==
    CASE answer = "route" -> [found |-> TRUE, coordinates |-> coordinates]
      [] answer = "network error" -> catchError(answer)
      [] OTHER -> NullRoute

\* a fetchRoute that asks the provider whatever the length
fetchRoute_unguarded(coordinates) ==
    { directions(coordinates, answer) : answer \in ProviderAnswers }

\* fetchRoute, given the "lng,lat;lng,lat;..." of the waypoints: null
\* below two waypoints; else the first route of the provider for the
\* coordinates in order, or null on any failure
fetchRoute(coordinates) ==
    IF Len(coordinates) < 2 THEN { NullRoute }
    ELSE { directions(coordinates, answer) : answer \in ProviderAnswers }

RemoveAt(s, i) == SubSeq(s, 1, i - 1) \o SubSeq(s, i + 1, Len(s))

\* a lookup whose answer is dropped
MapName_dropped(wps, id, name) == wps

\* prev.map((w) => (w.id === id ? { ...w, ...updates } : w))
MapName(wps, id, name) ==
    [ i \in 1..Len(wps) |->
        IF wps[i].id = id THEN [wps[i] EXCEPT !.name = name] ELSE wps[i] ]

MapMoved(wps, id, lng, lat) ==
    [ i \in 1..Len(wps) |->
        IF wps[i].id = id
          THEN [wps[i] EXCEPT !.lng = lng, !.lat = lat, !.name = Placeholder]
          ELSE wps[i] ]

\* prev.filter((w) => w.id !== id)
FilterOut(wps, id) ==
    LET Keep(w) == w.id # id IN SelectSeq(wps, Keep)

UnchangedRoute == UNCHANGED <<route, loading, fetches>>

\* Date.now() advances
Tick ==
    /\ now < MaxClock
    /\ now' = now + 1
    /\ UNCHANGED <<waypoints, lookups, route, loading, fetches, stale>>
    /\ UNCHANGED <<gatewayVars, pageVars>>

\* useWaypoints.addWaypoint up to its await: the waypoint is appended
\* with the temporary name and the name lookup starts
addWaypoint(lng, lat) ==
    /\ Len(waypoints) < MaxWaypoints
    /\ Len(lookups) < MaxLookups
    /\ LET id == now
       IN /\ waypoints' = Append(waypoints,
                [id |-> id, lng |-> lng, lat |-> lat, name |-> Placeholder])
          /\ lookups' = Append(lookups, [id |-> id, lng |-> lng, lat |-> lat])
    /\ stale' = TRUE
    /\ UNCHANGED now
    /\ UnchangedRoute
    /\ UNCHANGED <<gatewayVars, pageVars>>

\* the awaited reverseGeocode of addWaypoint or handleUpdateWaypoint
\* answers: the name is written to the waypoints with the call's id
reverseGeocode_then(i) ==
    /\ i \in DOMAIN lookups
    /\ \E locationName \in reverseGeocode(lookups[i].lng, lookups[i].lat) :
          waypoints' = MapName(waypoints, lookups[i].id, locationName)
    /\ lookups' = RemoveAt(lookups, i)
    /\ stale' = TRUE
    /\ UNCHANGED now
    /\ UnchangedRoute
    /\ UNCHANGED <<gatewayVars, pageVars>>

\* useWaypoints.removeWaypoint
removeWaypoint(id) ==
    /\ waypoints' = FilterOut(waypoints, id)
    /\ stale' = TRUE
    /\ UNCHANGED <<now, lookups>>
    /\ UnchangedRoute
    /\ UNCHANGED <<gatewayVars, pageVars>>

\* useWaypoints.clearWaypoints
clearWaypoints ==
    /\ waypoints' = <<>>
    /\ stale' = TRUE
    /\ UNCHANGED <<now, lookups>>
    /\ UnchangedRoute
    /\ UNCHANGED <<gatewayVars, pageVars>>

\* page.handleUpdateWaypoint up to its await: updateWaypoint(id, {lat,
\* lng, name: '...'}) and the name lookup for the new place starts
handleUpdateWaypoint(id, lat, lng) ==
    /\ Len(lookups) < MaxLookups
    /\ waypoints' = MapMoved(waypoints, id, lng, lat)
    /\ lookups' = Append(lookups, [id |-> id, lng |-> lng, lat |-> lat])
    /\ stale' = TRUE
    /\ UNCHANGED now
    /\ UnchangedRoute
    /\ UNCHANGED <<gatewayVars, pageVars>>

\* a hook whose effect returns no cleanup
Cancelled_noCleanup(fs) == fs

\* the cleanup the effect returns, run before the next effect: the
\* `cancelled` of the getRoute() it started is set
Cancelled(fs) == [ i \in 1..Len(fs) |-> [fs[i] EXCEPT !.cancelled = TRUE] ]

\* useRoute's effect after a render with a new waypoints array: the
\* cleanup of the previous effect runs, then below two waypoints the
\* route is cleared, else getRoute() starts
useRoute_effect ==
    /\ stale
    /\ stale' = FALSE
    /\ IF Len(waypoints) < 2
         THEN /\ route' = NullRoute
              /\ fetches' = Cancelled(fetches)
              /\ UNCHANGED loading
         ELSE /\ Len(fetches) < MaxFetches
              /\ loading' = TRUE
              /\ fetches' = Append(Cancelled(fetches),
                                   [coordinates |-> Coordinates(waypoints),
                                    cancelled |-> FALSE])
              /\ UNCHANGED route
    /\ UNCHANGED <<now, waypoints, lookups>>
    /\ UNCHANGED <<gatewayVars, pageVars>>

\* getRoute() after its await, fetchRoute having answered routeData: an
\* exception would leave getRoute() before setRoute and setLoading
getRoute_then(i, routeData) ==
    /\ i \in DOMAIN fetches
    /\ IF ~fetches[i].cancelled /\ routeData # Thrown
         THEN /\ route' = routeData
              /\ loading' = FALSE
         ELSE UNCHANGED <<route, loading>>
    /\ fetches' = RemoveAt(fetches, i)
    /\ UNCHANGED <<now, waypoints, lookups, stale>>
    /\ UNCHANGED <<gatewayVars, pageVars>>

\* the awaited fetchRoute of a getRoute() answers
useRoute_getRoute_then(i) ==
    /\ i \in DOMAIN fetches
    /\ \E routeData \in fetchRoute(fetches[i].coordinates) :
          getRoute_then(i, routeData)

InitClient ==
    /\ now = 0
    /\ waypoints = <<>>
    /\ lookups = <<>>
    /\ route = NullRoute
    /\ loading = FALSE
    /\ fetches = <<>>
    /\ stale = FALSE

----------------------------------------------------------------------------
(* The Cost Estimator: lib/costCalculator, useCostSettings, SettingsPanel,  *)
(* CostDisplay. Prices and costs count cents, gallons count hundredths.     *)

\* a JavaScript number: a ratio num / den, or Infinity, -Infinity or NaN
Ratio(num, den) == [kind |-> "finite", num |-> num, den |-> den]
Infinity == [kind |-> "Infinity", num |-> 0, den |-> 1]
NegativeInfinity == [kind |-> "-Infinity", num |-> 0, den |-> 1]
NaN == [kind |-> "NaN", num |-> 0, den |-> 1]

\* a / b for a finite a and a b >= 0: no division throws
Divide(a, b) ==
    IF b # 0 THEN Ratio(a, b)
    ELSE IF a = 0 THEN NaN
    ELSE IF a > 0 THEN Infinity ELSE NegativeInfinity

\* x * p for a finite p
Multiply(x, p) ==
    CASE x.kind = "finite" -> Ratio(x.num * p, x.den)
      [] x.kind = "NaN" -> NaN
      [] OTHER -> IF p = 0 THEN NaN
                  ELSE IF (p > 0) = (x.kind = "Infinity") THEN Infinity
                  ELSE NegativeInfinity

\* Number(x.toFixed(2)), x counted in hundredths: the nearest hundredth,
\* the half away from zero; Infinity and NaN come back as they are
toFixed(x) ==
    IF x.kind # "finite" THEN x
    ELSE IF x.num >= 0
      THEN Ratio((2 * x.num + x.den) \div (2 * x.den), 1)
      ELSE Ratio(0 - ((2 * (0 - x.num) + x.den) \div (2 * x.den)), 1)

\* a cost that leaves the mileage out
calculateFuelCost_perMile(distanceInMiles, s) ==
    toFixed(Multiply(Ratio(distanceInMiles, 1), s.pricePerGallon))

\* calculateFuelCost: C = (D / MPG) x P, in cents
calculateFuelCost(distanceInMiles, s) ==
    LET gallonsNeeded == Divide(distanceInMiles, s.mpg)
        totalCost == Multiply(gallonsNeeded, s.pricePerGallon)
    IN toFixed(totalCost)

\* calculateGallonsNeeded, in hundredths of a gallon
calculateGallonsNeeded(distanceInMiles, mpg) ==
    toFixed(Multiply(Divide(distanceInMiles, mpg), 100))

DEFAULT_SETTINGS == [mpg |-> 25, pricePerGallon |-> 350]

\* the positions of the MPG slider: min={10} max={60} step={1}
SliderValues == { 10, 25, 60 }

\* what the price field can hold: e.target.value of an input of
\* type="number" is the text typed, or "" when it is empty or no number
PriceTexts == { "", "0", "-5", "3.5", "4" }

\* Number(e.target.value), in cents
Number(text) ==
    CASE text = "" -> 0
      [] text = "0" -> 0
      [] text = "-5" -> 0 - 500
      [] text = "3.5" -> 350
      [] text = "4" -> 400

\* the distances of the routes displayed, in miles
Distances == { 0, 1, 100, 250 }

\* the settings an importer of lib/costCalculator can pass
CostSettings == [mpg : { 0, 10, 25 }, pricePerGallon : { 0, 350, 400 }]

NoCall == [distanceInMiles |-> 0, settings |-> DEFAULT_SETTINGS,
           called |-> FALSE, fuelCost |-> NaN, gallonsNeeded |-> NaN]

\* the two functions of lib/costCalculator called with a distance and
\* settings, as CostDisplay does
costCalculator(distanceInMiles, s) ==
    /\ costCall' = [distanceInMiles |-> distanceInMiles, settings |-> s,
                    called |-> TRUE,
                    fuelCost |-> calculateFuelCost(distanceInMiles, s),
                    gallonsNeeded |->
                        calculateGallonsNeeded(distanceInMiles, s.mpg)]
    /\ UNCHANGED <<settings, saving, search>>
    /\ UNCHANGED <<gatewayVars, clientVars>>

\* CostDisplay rendered for a route: the estimate under the settings
CostDisplay(distanceMiles) == costCalculator(distanceMiles, settings)

\* the MPG slider moved: onValueChange -> updateMpg(value[0])
updateMpg(mpg) ==
    /\ settings' = [settings EXCEPT !.mpg = mpg]
    /\ UNCHANGED <<costCall, saving, search>>
    /\ UNCHANGED <<gatewayVars, clientVars>>

\* the price field edited: onChange -> updatePrice(Number(e.target.value))
updatePrice(pricePerGallon) ==
    /\ settings' = [settings EXCEPT !.pricePerGallon = pricePerGallon]
    /\ UNCHANGED <<costCall, saving, search>>
    /\ UNCHANGED <<gatewayVars, clientVars>>

\* no save under way; alerted: the last save ended in alert('Failed to
\* save route')
NotSaving == [pc |-> "idle", name |-> "", waypoints |-> <<>>,
              alerted |-> FALSE]

\* the call slot of the page's routes.create request
SaveSlot == "c1"

\* waypoints.map((w) => ({ latitude: w.lat, longitude: w.lng, name: w.name }))
SaveBody(wps) ==
    [ i \in 1..Len(wps) |->
        [latitude |-> wps[i].lat, longitude |-> wps[i].lng,
         name |-> wps[i].name] ]

\* handleSaveRoute up to its first await: the name and the waypoints of
\* the render it was called in are what the request will carry
handleSaveRoute(name) ==
    /\ saving.pc = "idle"
    /\ calls[SaveSlot].pc = "idle"
    /\ saving' = [pc |-> "create", name |-> name,
                  waypoints |-> SaveBody(waypoints), alerted |-> FALSE]
    /\ UNCHANGED <<settings, costCall, search>>
    /\ UNCHANGED <<gatewayVars, clientVars>>

\* api.routes.create.mutate(...): the request reaches the gateway with
\* the identity of the session
handleSaveRoute_mutate(user) ==
    /\ saving.pc = "create"
    /\ calls[SaveSlot].pc = "idle"
    /\ routes_create(SaveSlot, user, saving.name, Undefined, saving.waypoints)

\* a save that clears whatever the answer is
Resolved_always(result) == TRUE

\* await api.routes.create.mutate(...) resolves; any failure is thrown
\* into the catch block
Resolved(result) == result.status = "ok"

\* handleSaveRoute after its await: clearWaypoints() when the call
\* resolved, else the catch block: console.error and alert
handleSaveRoute_then ==
    /\ saving.pc = "create"
    /\ calls[SaveSlot].pc = "done"
    /\ IF Resolved(calls[SaveSlot].result)
         THEN /\ waypoints' = <<>>
              /\ stale' = TRUE
              /\ saving' = NotSaving
         ELSE /\ saving' = [NotSaving EXCEPT !.alerted = TRUE]
              /\ UNCHANGED <<waypoints, stale>>
    /\ calls' = [calls EXCEPT ![SaveSlot] = Idle]
    /\ UNCHANGED <<now, lookups>>
    /\ UnchangedRoute
    /\ UNCHANGED <<dbRoutes, dbWaypoints, nextRouteId, nextWaypointId>>
    /\ UNCHANGED <<settings, costCall, search>>

----------------------------------------------------------------------------
(* The search: lib/mapboxSearch, hooks/useSearch, components/SearchPanel    *)

MaxSuggestions == 2
MaxRequests == 2

\* Number.MAX_SAFE_INTEGER, 2^53 - 1 in the source: the priority of every
\* type that is not listed; here the largest integer at hand
MAX_SAFE_INTEGER == 2147483647

\* feature_type of a suggestion of the provider; Undefined: none given
FeatureTypes == { "place", "region", "postcode", "address", "poi", Undefined }

\* data.suggestions of the provider: mapbox_id stands for the name and
\* place_formatted as well
RawSuggestions ==
    UNION { { [ i \in 1..n |-> [mapbox_id |-> i, feature_type |-> f[i]] ] :
                f \in [1..n -> FeatureTypes] } : n \in 0..MaxSuggestions }

\* rawSuggestions: the fields renamed, originalIndex: index
rawSuggestions(data) ==
    [ i \in 1..Len(data) |->
        [mapboxId |-> data[i].mapbox_id, featureType |-> data[i].feature_type,
         originalIndex |-> i - 1] ]

\* typePriority[suggestion.featureType || ''] ?? Number.MAX_SAFE_INTEGER
typePriority(featureType) ==
    CASE featureType = "place" -> 0
      [] featureType = "region" -> 1
      [] featureType = "postcode" -> 2
      [] featureType = "address" -> 3
      [] OTHER -> MAX_SAFE_INTEGER

\* a comparator that looks at the priority only, latest first among equals
compare_unstable(a, b) ==
    IF a.priority = b.priority THEN b.originalIndex - a.originalIndex
    ELSE a.priority - b.priority

\* the comparator handed to sort
compare(a, b) ==
    IF a.priority = b.priority THEN a.originalIndex - b.originalIndex
    ELSE a.priority - b.priority

\* x put into a sorted array before the first element it precedes
RECURSIVE Insert(_, _)
Insert(x, sorted) ==
    IF sorted = <<>> THEN <<x>>
    ELSE IF compare(x, Head(sorted)) < 0 THEN <<x>> \o sorted
    ELSE <<Head(sorted)>> \o Insert(x, Tail(sorted))

\* Array.prototype.sort with the comparator, an insertion sort
RECURSIVE sort(_)
sort(array) ==
    IF array = <<>> THEN <<>>
    ELSE Insert(array[Len(array)], sort(SubSeq(array, 1, Len(array) - 1)))

\* what getSuggestions returns for the provider's answer: [] for a
\* failed request, else the suggestions with their priority, sorted, and
\* originalIndex and priority dropped
getSuggestions(answer) ==
    IF ~answer.ok THEN <<>>
    ELSE LET raw == rawSuggestions(answer.suggestions)
             prioritized ==
                 [ i \in 1..Len(raw) |->
                     [mapboxId |-> raw[i].mapboxId,
                      featureType |-> raw[i].featureType,
                      originalIndex |-> raw[i].originalIndex,
                      priority |-> typePriority(raw[i].featureType)] ]
             sortedSuggestions == sort(prioritized)
         IN [ i \in 1..Len(sortedSuggestions) |->
                [mapboxId |-> sortedSuggestions[i].mapboxId,
                 featureType |-> sortedSuggestions[i].featureType] ]

\* the answers of the provider: a body with suggestions, or a failure
\* (no token, a rejected fetch, a response that is not ok)
Answered(data) == [ok |-> TRUE, suggestions |-> data]
RequestFailed == [ok |-> FALSE, suggestions |-> <<>>]

\* what can be in the search field; trim() makes " " empty
Queries == { "", " ", "salt", "lake" }
trim(value) == IF value = " " THEN "" ELSE value

NoTimer == [set |-> FALSE, query |-> ""]

\* suggest(query): nothing but the clearing for an empty query; else the
\* pending timer is cleared and a new one is set
suggest(sr, query) ==
    IF trim(query) = ""
      THEN [sr EXCEPT !.suggestions = <<>>]
      ELSE [sr EXCEPT !.timer = [set |-> TRUE, query |-> query]]

\* clearSuggestions()
clearSuggestions(sr) == [sr EXCEPT !.suggestions = <<>>]

UnchangedButSearch ==
    /\ UNCHANGED <<settings, costCall, saving>>
    /\ UNCHANGED <<gatewayVars, clientVars>>

\* SearchPanel.handleSearchChange
handleSearchChange(value) ==
    /\ search' = IF trim(value) # ""
                   THEN suggest([search EXCEPT !.query = value,
                                               !.isOpen = TRUE], value)
                   ELSE clearSuggestions([search EXCEPT !.query = value,
                                                        !.isOpen = FALSE])
    /\ UnchangedButSearch

\* SearchPanel.handleClear
handleClear ==
    /\ search' = clearSuggestions([search EXCEPT !.query = "",
                                                 !.isOpen = FALSE])
    /\ UnchangedButSearch

\* the debounce timer fires: setLoading(true) and getSuggestions(query)
\* is called
suggest_setTimeout ==
    /\ search.timer.set
    /\ Len(search.requests) < MaxRequests
    /\ search' = [search EXCEPT !.timer = NoTimer,
                                !.loading = TRUE,
                                !.requests = Append(@, search.timer.query)]
    /\ UnchangedButSearch

\* the awaited getSuggestions of request i returns for the provider's
\* answer: setSuggestions(results), setLoading(false)
suggest_then(i, answer) ==
    /\ i \in DOMAIN search.requests
    /\ search' = [search EXCEPT !.requests = RemoveAt(@, i),
                                !.data = answer,
                                !.suggestions = getSuggestions(answer),
                                !.loading = FALSE]
    /\ UnchangedButSearch

\* SearchPanel.handleSelectSuggestion up to its await: retrieve() is
\* called for a suggestion listed
handleSelectSuggestion ==
    /\ search.suggestions # <<>>
    /\ ~search.retrieving
    /\ search' = [search EXCEPT !.retrieving = TRUE]
    /\ UnchangedButSearch

\* handleSelectSuggestion after its await: with a result the place goes
\* to onLocationSelect and handleClear() runs; without one the query is
\* emptied and the list is closed
handleSelectSuggestion_then(found) ==
    /\ search.retrieving
    /\ search' = IF found
                   THEN clearSuggestions([search EXCEPT !.retrieving = FALSE,
                                                        !.query = "",
                                                        !.isOpen = FALSE])
                   ELSE [search EXCEPT !.retrieving = FALSE,
                                       !.query = "", !.isOpen = FALSE]
    /\ UnchangedButSearch

InitSearch ==
    search = [query |-> "", isOpen |-> FALSE, suggestions |-> <<>>,
              loading |-> FALSE, timer |-> NoTimer, requests |-> <<>>,
              data |-> RequestFailed, retrieving |-> FALSE]

\* the answers seen while the whole panel is observed
PanelAnswers ==
    { RequestFailed,
      Answered(<<[mapbox_id |-> 1, feature_type |-> "poi"],
                 [mapbox_id |-> 2, feature_type |-> "place"]>>) }

\* the search panel in use
NextSearch ==
    \/ \E value \in Queries : handleSearchChange(value)
    \/ handleClear
    \/ suggest_setTimeout
    \/ \E i \in 1..MaxRequests, answer \in PanelAnswers : suggest_then(i, answer)
    \/ handleSelectSuggestion
    \/ \E found \in BOOLEAN : handleSelectSuggestion_then(found)

\* one query typed again and again, and every answer of the provider;
\* the requests being alike, the one sent first is answered first
NextSuggest ==
    \/ handleSearchChange("salt")
    \/ suggest_setTimeout
    \/ \E data \in RawSuggestions : suggest_then(1, Answered(data))
    \/ suggest_then(1, RequestFailed)

InitPage ==
    /\ settings = DEFAULT_SETTINGS
    /\ costCall = NoCall
    /\ saving = NotSaving
    /\ InitSearch

\* the Cost Estimator: the settings panel, the display, and the
\* calculator called by any importer
NextCost ==
    \/ \E mpg \in SliderValues : updateMpg(mpg)
    \/ \E text \in PriceTexts : updatePrice(Number(text))
    \/ \E d \in Distances : CostDisplay(d)
    \/ \E d \in Distances, s \in CostSettings : costCalculator(d, s)

\* the places clicked while useRoute is observed
RoutePoints == { <<Nano(20), Nano(10)>> }

\* the Waypoint Store and its name lookups
NextStore ==
    \/ Tick
    \/ \E p \in Points : addWaypoint(p[1], p[2])
    \/ \E i \in 1..MaxLookups : reverseGeocode_then(i)
    \/ \E id \in ClientIds : removeWaypoint(id)
    \/ clearWaypoints
    \/ \E id \in ClientIds, p \in Points : handleUpdateWaypoint(id, p[2], p[1])

\* the store with the waypoints added and dragged at one place, and
\* removed, while their names are looked up
NextNames ==
    \/ Tick
    \/ \E p \in RoutePoints : addWaypoint(p[1], p[2])
    \/ \E i \in 1..MaxLookups : reverseGeocode_then(i)
    \/ \E i \in DOMAIN waypoints : removeWaypoint(waypoints[i].id)
    \/ \E i \in DOMAIN waypoints, p \in RoutePoints :
            handleUpdateWaypoint(waypoints[i].id, p[2], p[1])

\* every name lookup is answered in the end
LookupsAnswered ==
    \A i \in 1..MaxLookups : WF_vars(reverseGeocode_then(i))

\* the name lookups of the step found their places: every waypoint's
\* name is the placeholder or a place name
PlacesFound ==
    \A j \in DOMAIN waypoints' : waypoints'[j].name[1] \in {"...", "place"}

\* the page: the store, the name lookups (which find their places) and
\* useRoute on its waypoints; remove and drag are offered for the
\* waypoints the page lists
NextRoute ==
    \/ Tick
    \/ \E p \in RoutePoints : addWaypoint(p[1], p[2])
    \/ \E i \in 1..MaxLookups : reverseGeocode_then(i) /\ PlacesFound
    \/ \E i \in DOMAIN waypoints : removeWaypoint(waypoints[i].id)
    \/ clearWaypoints
    \/ \E i \in DOMAIN waypoints, p \in RoutePoints :
            handleUpdateWaypoint(waypoints[i].id, p[2], p[1])
    \/ useRoute_effect
    \/ \E i \in 1..MaxFetches : useRoute_getRoute_then(i)

----------------------------------------------------------------------------
(* The gateway as a state machine                                          *)

\* Request bodies: create names the route, update renames it or leaves the
\* name out; the optional description is left out (undefined) throughout
CreateNames == {"Trip"}
UpdateNames == {Undefined, "Tour"}
UpdateDescriptions == {Undefined}

InitGateway ==
    /\ dbRoutes = {}
    /\ dbWaypoints = {}
    /\ nextRouteId = 0
    /\ nextWaypointId = 0
    /\ calls = [c \in ConcurrentSlots |-> Idle]

\* A call without identity is the same call whatever its body holds
Body(user, isDefault) == user = NoUser => isDefault

NextGateway ==
    \E c \in Slots :
        \/ \E user \in Callers, name \in CreateNames, wps \in WaypointArrays :
                /\ Body(user, wps = <<>>)
                /\ user # NoUser => nextRouteId < MaxRoutes
                /\ routes_create(c, user, name, Undefined, wps)
        \/ routes_create_createWaypoints(c)
        \/ \E user \in Callers, id \in RouteIds : routes_get(c, user, id)
        \/ routes_get_waypoints(c)
        \/ \E user \in Callers, id \in RouteIds, name \in UpdateNames,
              description \in UpdateDescriptions,
              hasWaypoints \in BOOLEAN, wps \in WaypointArrays :
                /\ Body(user, id = 1 /\ name = Undefined
                              /\ description = Undefined /\ ~hasWaypoints)
                /\ ~hasWaypoints => wps = <<>>
                /\ routes_update(c, user, id, name, description, hasWaypoints, wps)
        \/ routes_update_replaceWaypoints(c)
        \/ \E user \in Callers, id \in RouteIds :
                /\ Body(user, id = 1)
                /\ routes_delete(c, user, id)
        \/ \E user \in Callers, routeId \in RouteIds, wp \in WaypointInputs :
                /\ Body(user, routeId = 1 /\ wp = WaypointA)
                /\ routes_addWaypoint(c, user, routeId, wp)
        \/ routes_addWaypoint_getWaypoints(c)
        \/ routes_addWaypoint_createWaypoint(c)
        \/ \E user \in Callers, id \in WaypointIds :
                /\ Body(user, id = 1)
                /\ routes_removeWaypoint(c, user, id)

\* the routes created while the lists are observed
MaxListed == 2

\* the waypoints arrays of the routes listed
ListedArrays == { <<>>, <<WaypointA>> }

\* the gateway over time: routes are created, and deleted by their
\* owners, as the clock advances, and listed
NextLibrary ==
    \/ Tick
    \/ \E c \in Slots :
        \/ \E user \in Callers, name \in CreateNames, wps \in ListedArrays :
                /\ Body(user, wps = <<>>)
                /\ user # NoUser => nextRouteId < MaxListed
                /\ routes_create(c, user, name, Undefined, wps)
        \/ routes_create_createWaypoints(c)
        \/ \E user \in Callers : routes_list(c, user)
        \/ routes_list_getWaypoints(c)
        \/ \E r \in dbRoutes : routes_delete(c, r.user_id, r.id)

\* the owner of the routes read while they are updated
Owner == "userX"

\* two clients of one user at the same time: one creates and updates
\* routes, the other reads them
NextConcurrent ==
    \/ \E name \in CreateNames, wps \in WaypointArrays :
            /\ nextRouteId < MaxRoutes
            /\ routes_create(Writer, Owner, name, Undefined, wps)
    \/ routes_create_createWaypoints(Writer)
    \/ \E id \in RouteIds, name \in UpdateNames, wps \in WaypointArrays :
            routes_update(Writer, Owner, id, name, Undefined, TRUE, wps)
    \/ routes_update_replaceWaypoints(Writer)
    \/ \E id \in RouteIds : routes_get(Reader, Owner, id)
    \/ routes_get_waypoints(Reader)

\* the names typed into a request, the empty one among them
TypedNames == { "", "Trip" }

\* the gateway over time: the owner creates a route and changes its
\* name and its waypoints as the clock advances
NextHistory ==
    \/ Tick
    \/ \E c \in Slots :
        \/ \E name \in TypedNames, wps \in ListedArrays :
                /\ createInput(name) => nextRouteId < MaxRoutes
                /\ routes_create(c, Owner, name, Undefined, wps)
        \/ routes_create_createWaypoints(c)
        \/ \E id \in RouteIds, name \in TypedNames \cup {Undefined},
              hasWaypoints \in BOOLEAN, wps \in ListedArrays :
                routes_update(c, Owner, id, name, Undefined, hasWaypoints, wps)
        \/ routes_update_replaceWaypoints(c)
        \/ \E routeId \in RouteIds :
                routes_addWaypoint(c, Owner, routeId, WaypointA)
        \/ routes_addWaypoint_getWaypoints(c)
        \/ routes_addWaypoint_createWaypoint(c)
        \/ \E id \in WaypointIds : routes_removeWaypoint(c, Owner, id)

\* waypoints outside the valid ranges: latitude 95 and longitude -200 fit
\* their columns, latitude 100 overflows decimal(10, 8)
WaypointFar ==
    [latitude |-> Degrees(95), longitude |-> Degrees(-200), name |-> "Far"]
WaypointOff ==
    [latitude |-> Degrees(100), longitude |-> Degrees(20), name |-> "Off"]

\* the waypoints a caller sends, in and out of range
RangeInputs == { WaypointA, WaypointFar, WaypointOff }
RangeArrays == { <<>> } \cup { <<wp>> : wp \in RangeInputs }

\* the gateway called by a route's owner with coordinates in and out of
\* range, through create, update and addWaypoint
NextRanges ==
    \E c \in Slots :
        \/ \E wps \in RangeArrays :
                /\ nextRouteId < MaxRoutes
                /\ routes_create(c, Owner, "Trip", Undefined, wps)
        \/ routes_create_createWaypoints(c)
        \/ \E id \in RouteIds, hasWaypoints \in BOOLEAN, wps \in RangeArrays :
                routes_update(c, Owner, id, Undefined, Undefined,
                              hasWaypoints, wps)
        \/ \E routeId \in RouteIds, wp \in RangeInputs :
                routes_addWaypoint(c, Owner, routeId, wp)
        \/ routes_addWaypoint_getWaypoints(c)
        \/ routes_addWaypoint_createWaypoint(c)

\* the owner's route receiving addWaypoint calls from two requests at
\* once, their awaits interleaved in every order
NextAppend ==
    \/ \E wps \in ListedArrays :
            /\ nextRouteId < MaxRoutes
            /\ routes_create(Writer, Owner, "Trip", Undefined, wps)
    \/ routes_create_createWaypoints(Writer)
    \/ \E c \in ConcurrentSlots :
        \/ \E routeId \in RouteIds :
                routes_addWaypoint(c, Owner, routeId, WaypointA)
        \/ routes_addWaypoint_getWaypoints(c)
        \/ routes_addWaypoint_createWaypoint(c)

\* the user's edits of the Waypoint Sequence while a route is saved, the
\* names of the waypoints still being looked up
Edit ==
    \/ \E p \in RoutePoints : addWaypoint(p[1], p[2])
    \/ \E i \in DOMAIN waypoints : removeWaypoint(waypoints[i].id)

\* the page saving its waypoints as routes, signed in or not
NextSave ==
    \/ Tick
    \/ Edit
    \/ \E name \in CreateNames : handleSaveRoute(name)
    \/ \E user \in {Owner, NoUser} :
            /\ user # NoUser => nextRouteId < MaxRoutes
            /\ handleSaveRoute_mutate(user)
    \/ routes_create_createWaypoints(SaveSlot)
    \/ handleSaveRoute_then

Init == InitGateway /\ InitClient /\ InitPage

\* the gateway serving calls
SpecGateway == Init /\ [][NextGateway]_vars

\* addWaypoint calls racing on one route
SpecAppend == Init /\ [][NextAppend]_vars

\* the gateway given coordinates in and out of range
SpecRanges == Init /\ [][NextRanges]_vars

\* the gateway serving create, list and delete calls over time
SpecLibrary == Init /\ [][NextLibrary]_vars

\* the gateway serving a writing and a reading client at the same time
SpecConcurrent == Init /\ [][NextConcurrent]_vars

\* one browser session editing the Waypoint Store
SpecStore == Init /\ [][NextStore]_vars

\* the gateway serving one owner over time
SpecHistory == Init /\ [][NextHistory]_vars

\* the page saving routes
SpecSave == Init /\ [][NextSave]_vars

\* the search panel in use
SpecSearch == Init /\ [][NextSearch]_vars

\* the suggestions of the provider ranked
SpecSuggest == Init /\ [][NextSuggest]_vars

\* the Cost Estimator in use
SpecCost == Init /\ [][NextCost]_vars

\* one browser session whose name lookups are all answered in the end
SpecNames == Init /\ [][NextNames]_vars /\ LookupsAnswered

\* one browser session with the route of the waypoints displayed
SpecRoute == Init /\ [][NextRoute]_vars

----------------------------------------------------------------------------
(* Properties of the gateway                                               *)

Failed(c) == calls'[c].pc = "done" /\ calls'[c].result.status # "ok"

OwnedByOther(routeId, user) ==
    \E r \in dbRoutes : r.id = routeId /\ r.user_id # user

\* C2: an update by a signed-in user on a route of another user fails and
\* changes neither the route row nor any of its waypoints, whichever
\* fields the request carries
C2_NonOwnerUpdateRejected ==
    [][\A c \in Slots, user \in Users, id \in RouteIds,
          name \in UpdateNames, description \in UpdateDescriptions,
          hasWaypoints \in BOOLEAN, wps \in WaypointArrays :
            ( /\ OwnedByOther(id, user)
              /\ routes_update(c, user, id, name, description, hasWaypoints, wps) )
            => ( /\ Failed(c)
                 /\ dbRoutes' = dbRoutes
                 /\ dbWaypoints' = dbWaypoints )]_vars

\* C3: removeWaypoint by a signed-in user who does not own the waypoint's
\* route fails and the waypoint stays stored
C3_NonOwnerRemoveRejected ==
    [][\A c \in Slots, user \in Users, id \in WaypointIds :
            ( /\ \E w \in dbWaypoints :
                    w.id = id /\ OwnedByOther(w.route_id, user)
              /\ routes_removeWaypoint(c, user, id) )
            => ( /\ Failed(c)
                 /\ dbWaypoints' = dbWaypoints )]_vars

\* C4: when the waypoint insert of a create fails, the route row that
\* create inserted is not left in storage
C4_CreateAllOrNothing ==
    [][\A c \in Slots :
            ( routes_create_createWaypoints(c) /\ Failed(c) )
            => ~ \E r \in dbRoutes' : r.id = calls[c].id]_vars

\* C6: the positions stored for each route are exactly 0..n-1, n the
\* number of its waypoints
C6_PositionsContiguous ==
    \A r \in dbRoutes :
        LET rows == getWaypointsByRouteId(r.id)
        IN /\ { w.position : w \in rows } = 0..(Cardinality(rows) - 1)
           /\ \A w, v \in rows : w.position = v.position => w = v

IsOrderedByPosition(rows) ==
    \A i \in 1..Len(rows), j \in 1..Len(rows) :
        i < j => rows[i].position <= rows[j].position

\* C9: get answers with the route and its waypoints in position order
\* only to the owner; to any other signed-in caller the answer for a
\* stored route is the very answer for an id that names no route
C9_GetOnlyForOwner ==
    [][\A c \in Slots :
          /\ \A user \in Users, id \in RouteIds :
                routes_get(c, user, id) =>
                  IF \E r \in dbRoutes : r.id = id /\ r.user_id = user
                    THEN /\ calls'[c].pc = "getWaypoints"
                         /\ calls'[c].route \in dbRoutes
                         /\ calls'[c].route.id = id
                         /\ calls'[c].route.user_id = user
                    ELSE calls'[c] = Done("get", Failure("Route not found"))
          /\ routes_get_waypoints(c) =>
                /\ calls'[c].pc = "done"
                /\ calls'[c].result.status = "ok"
                /\ calls'[c].result.route = calls[c].route
                /\ IsOrderedByPosition(calls'[c].result.waypoints)
                /\ Range(calls'[c].result.waypoints)
                     = { w \in dbWaypoints : w.route_id = calls[c].id }
                /\ Len(calls'[c].result.waypoints)
                     = Cardinality({ w \in dbWaypoints : w.route_id = calls[c].id })]_vars

\* a signed-in caller was told "Route not found" while the route is stored
C9_Witness ==
    \E c \in Slots :
        /\ calls[c] = Done("get", Failure("Route not found"))
        /\ \A id \in RouteIds : \E r \in dbRoutes : r.id = id

\* C10: a delete by a non-owner fails and removes nothing, a delete by the
\* owner removes the route with all its waypoints, and every stored
\* waypoint references exactly one stored route
C10_WaypointsHaveRoute ==
    \A w \in dbWaypoints :
        Cardinality({ r \in dbRoutes : r.id = w.route_id }) = 1

C10_DeleteCascades ==
    /\ []C10_WaypointsHaveRoute
    /\ [][\A c \in Slots, user \in Users, id \in RouteIds :
            routes_delete(c, user, id) =>
              IF \E r \in dbRoutes : r.id = id /\ r.user_id = user
                THEN /\ calls'[c] = Done("delete", Ok(NoRoute, <<>>))
                     /\ dbRoutes' = { r \in dbRoutes : r.id # id }
                     /\ dbWaypoints' = { w \in dbWaypoints : w.route_id # id }
                ELSE /\ Failed(c)
                     /\ dbRoutes' = dbRoutes
                     /\ dbWaypoints' = dbWaypoints]_vars

\* a delete was refused while every route is stored, with waypoints: the
\* caller was not the owner, and the route and its waypoints are kept
C10_Witness ==
    \E c \in Slots :
        /\ calls[c] = Done("delete",
                Failure("Unauthorized: You can only delete your own routes"))
        /\ \A id \in RouteIds :
              /\ \E r \in dbRoutes : r.id = id
              /\ \E w \in dbWaypoints : w.route_id = id

StoredWaypoints(routeId) == { w \in dbWaypoints : w.route_id = routeId }

\* rows are, in order, the rows of the array wps stored for the route:
\* one row per element, at positions 0..m-1, with the element's name and
\* its coordinates as the columns hold them
IsWhole(rows, routeId, wps) ==
    /\ Len(rows) = Len(wps)
    /\ \A i \in 1..Len(rows) :
          /\ rows[i].route_id = routeId
          /\ rows[i].position = i - 1
          /\ rows[i].name = wps[i].name
          /\ rows[i].latitude = decimal(wps[i].latitude)
          /\ rows[i].longitude = decimal(wps[i].longitude)

\* the update that replaces the waypoints of route id by wps has returned:
\* on success the route holds exactly the rows of wps and the other
\* routes their rows, on failure no row has changed
Replaced(c, id, wps) ==
    IF calls'[c].result.status = "ok"
      THEN /\ \A rows \in OrderedByPosition(
                            { w \in dbWaypoints' : w.route_id = id }) :
                IsWhole(rows, id, wps)
           /\ { w \in dbWaypoints' : w.route_id # id }
                = { w \in dbWaypoints : w.route_id # id }
      ELSE dbWaypoints' = dbWaypoints

SameCoordinates(rows, wps) ==
    /\ Len(rows) = Len(wps)
    /\ \A i \in 1..Len(rows) :
          /\ rows[i].latitude = wps[i].latitude
          /\ rows[i].longitude = wps[i].longitude

Rejected(c, op) == calls'[c] = Done(op, Failure("UNAUTHORIZED"))

StorageUnchanged ==
    UNCHANGED <<dbRoutes, dbWaypoints, nextRouteId, nextWaypointId>>

AnsweredUnauthorized(c) ==
    calls'[c].pc = "done" /\ calls'[c].result.status = "UNAUTHORIZED"

\* C12: create, update, delete, addWaypoint and removeWaypoint called
\* without a user id are answered UNAUTHORIZED and leave storage
\* unchanged; no call made with a user id is answered UNAUTHORIZED
C12_MutationsNeedIdentity ==
    [][\A c \in Slots :
        /\ \A name \in CreateNames :
                routes_create(c, NoUser, name, Undefined, <<>>)
                => Rejected(c, "create") /\ StorageUnchanged
        /\ routes_update(c, NoUser, 1, Undefined, Undefined, FALSE, <<>>)
                => Rejected(c, "update") /\ StorageUnchanged
        /\ routes_delete(c, NoUser, 1)
                => Rejected(c, "delete") /\ StorageUnchanged
        /\ routes_addWaypoint(c, NoUser, 1, WaypointA)
                => Rejected(c, "addWaypoint") /\ StorageUnchanged
        /\ routes_removeWaypoint(c, NoUser, 1)
                => Rejected(c, "removeWaypoint") /\ StorageUnchanged
        /\ AnsweredUnauthorized(c) =>
              \A user \in Users :
                /\ \A name \in CreateNames, wps \in WaypointArrays :
                      ~ routes_create(c, user, name, Undefined, wps)
                /\ \A id \in RouteIds, name \in UpdateNames,
                      description \in UpdateDescriptions,
                      hasWaypoints \in BOOLEAN, wps \in WaypointArrays :
                      ~ routes_update(c, user, id, name, description,
                                      hasWaypoints, wps)
                /\ \A id \in RouteIds : ~ routes_delete(c, user, id)
                /\ \A routeId \in RouteIds, wp \in WaypointInputs :
                      ~ routes_addWaypoint(c, user, routeId, wp)
                /\ \A id \in WaypointIds :
                      ~ routes_removeWaypoint(c, user, id)]_vars

\* a delete without a user id was answered UNAUTHORIZED and the route
\* with its waypoints is still stored
C12_Witness ==
    \E c \in Slots :
        /\ calls[c] = Done("delete", Failure("UNAUTHORIZED"))
        /\ dbRoutes # {}
        /\ dbWaypoints # {}

----------------------------------------------------------------------------
(* Properties of the browser session                                       *)

InFlight(i) == i \in DOMAIN fetches /\ ~fetches[i].cancelled

\* every getRoute() but the one started last has been cancelled
C1_EarlierAreCancelled ==
    \A i \in 1..(Len(fetches) - 1) : fetches[i].cancelled

\* with two or more waypoints rendered and the answer to their
\* getRoute() arrived, the route shown is an answer for these waypoints
C1_DisplayedIsLatest ==
    ( /\ ~stale
      /\ Len(waypoints) >= 2
      /\ \A i \in DOMAIN fetches : fetches[i].cancelled )
    => route \in fetchRoute(Coordinates(waypoints))

C5_LoadingOnlyLatest ==
    (\A i \in DOMAIN fetches : ~InFlight(i)) => loading = FALSE

\* C7: no two waypoints of the store share an id
C7_UniqueIds ==
    \A i, j \in DOMAIN waypoints :
        waypoints[i].id = waypoints[j].id => i = j

Matched(id) == \E i \in DOMAIN waypoints : waypoints[i].id = id

\* C8: each add lengthens the store by one, each remove of a stored id
\* shortens it by one, and a remove of an id not stored, an update and
\* the completion of a name lookup leave its length unchanged
C8_LengthCountsAddsAndRemoves ==
    [][/\ \A p \in Points :
            addWaypoint(p[1], p[2]) => Len(waypoints') = Len(waypoints) + 1
       /\ \A id \in ClientIds :
            removeWaypoint(id) =>
              Len(waypoints') =
                Len(waypoints) - (IF Matched(id) THEN 1 ELSE 0)
       /\ \A id \in ClientIds, p \in Points :
            handleUpdateWaypoint(id, p[2], p[1]) =>
              Len(waypoints') = Len(waypoints)
       /\ \A i \in 1..MaxLookups :
            reverseGeocode_then(i) => Len(waypoints') = Len(waypoints)]_vars

Blank == <<"">>

Unnamed(id) ==
    \E i \in DOMAIN waypoints :
        waypoints[i].id = id /\ waypoints[i].name = Placeholder

\* no name is blank, and a waypoint shows the placeholder only while a
\* lookup for it is awaited
C15_NamedOnceLookedUp ==
    \A i \in DOMAIN waypoints :
        /\ waypoints[i].name # Blank
        /\ waypoints[i].name = Placeholder
             => \E j \in DOMAIN lookups : lookups[j].id = waypoints[i].id

\* C15: a waypoint is added with the placeholder name; once its lookup
\* has finished its name is neither blank nor the placeholder, and, every
\* lookup being answered in the end, a waypoint showing the placeholder
\* is in the end named or removed
C15_NameBackfill ==
    /\ []C15_NamedOnceLookedUp
    /\ [][\A p \in RoutePoints :
            addWaypoint(p[1], p[2])
              => waypoints'[Len(waypoints')].name = Placeholder]_vars
    /\ \A id \in ClientIds : Unnamed(id) ~> ~Unnamed(id)

\* the lookups have finished, one of them failed, and the waypoints carry
\* the label made from the coordinates and the place found
C15_Witness ==
    /\ lookups = <<>>
    /\ Len(waypoints) = 2
    /\ waypoints[1].name[1] = "Waypoint"
    /\ waypoints[2].name[1] = "place"

\* C16: called with mpg = 0, calculateFuelCost and calculateGallonsNeeded
\* signal an error: they return neither an infinite value nor NaN
C16_ZeroMpgRejected ==
    costCall.called /\ costCall.settings.mpg = 0
      => /\ costCall.fuelCost.kind = "error"
         /\ costCall.gallonsNeeded.kind = "error"

\* C17: the Cost Settings stay valid whatever the settings panel sends to
\* updateMpg and updatePrice: mpg > 0 and pricePerGallon > 0
C17_SettingsStayValid ==
    /\ settings.mpg > 0
    /\ settings.pricePerGallon > 0

C18_NamesNonEmpty == \A r \in dbRoutes : r.name # ""

\* C18: every persisted route has a non-empty name: create and update
\* called with an empty name fail and leave the storage unchanged
C18_EmptyNameRejected ==
    /\ []C18_NamesNonEmpty
    /\ [][\A c \in Slots :
            /\ \A wps \in ListedArrays :
                    routes_create(c, Owner, "", Undefined, wps)
                      => Failed(c) /\ StorageUnchanged
            /\ \A id \in RouteIds, hasWaypoints \in BOOLEAN,
                  wps \in ListedArrays :
                    routes_update(c, Owner, id, "", Undefined, hasWaypoints, wps)
                      => Failed(c) /\ StorageUnchanged]_vars

\* the route's updated_at moves forward in this step
Refreshed(id) ==
    \A r \in dbRoutes, r2 \in dbRoutes' :
        r.id = id /\ r2.id = id => r2.updated_at > r.updated_at

\* the call of slot c returns success in this step
Succeeds(c) == calls'[c].pc = "done" /\ calls'[c].result.status = "ok"

\* time has passed since the route was last written
Later(id) == \A r \in dbRoutes : r.id = id => now > r.updated_at

\* C19: a successful update (of the name or of the waypoints), addWaypoint
\* or removeWaypoint on a route, made after time has passed, leaves the
\* route's updated_at later than it was
C19_UpdatedAtRefreshed ==
    [][\A c \in Slots, id \in RouteIds :
        Later(id) =>
          /\ \A name \in TypedNames \cup {Undefined},
                hasWaypoints \in BOOLEAN, wps \in ListedArrays :
                  /\ routes_update(c, Owner, id, name, Undefined, hasWaypoints, wps)
                  /\ name # Undefined \/ hasWaypoints
                  /\ Succeeds(c) \/ calls'[c].pc = "replaceWaypoints"
                  => Refreshed(id)
          /\ routes_addWaypoint_createWaypoint(c) /\ calls[c].id = id
               /\ Succeeds(c) => Refreshed(id)
          /\ \A w \in dbWaypoints :
                routes_removeWaypoint(c, Owner, w.id) /\ w.route_id = id
                  /\ Succeeds(c) => Refreshed(id)]_vars

\* C20: while a save is under way the Waypoint Sequence changes only by
\* the user's edits or by the clear that follows a successful create; a
\* failed create leaves it as it is
C20_FailedSaveKeepsWaypoints ==
    [][/\ saving.pc = "create" /\ waypoints' # waypoints
          => \/ Edit
             \/ /\ handleSaveRoute_then
                /\ calls[SaveSlot].result.status = "ok"
                /\ waypoints' = <<>>
       /\ handleSaveRoute_then /\ calls[SaveSlot].result.status # "ok"
          => waypoints' = waypoints /\ saving'.alerted]_vars

\* a save has failed after its route row was stored, and the waypoints
\* are still on the page
C20_Witness ==
    /\ saving.alerted
    /\ dbRoutes # {}
    /\ dbWaypoints = {}
    /\ Len(waypoints) > 0

\* the coordinates of sequences of 0 and of 1 waypoints
ShortCoordinates == { <<>> } \cup { <<p>> : p \in Points }

\* no getRoute() was started for fewer than 2 waypoints, and once the
\* effect has run for such a sequence the route shown is null
C21_NoRouteBelowTwo ==
    /\ \A c \in ShortCoordinates : fetchRoute(c) = { NullRoute }
    /\ \A i \in DOMAIN fetches :
          fetchRoute(fetches[i].coordinates) # { NullRoute }
    /\ ~stale /\ Len(waypoints) < 2 => route = NullRoute

\* C21: with 0 or 1 waypoints fetchRoute answers null without asking the
\* provider, useRoute's effect starts no getRoute() for such a sequence,
\* and the route shown for it is null
C21_NoRequestBelowTwo ==
    /\ []C21_NoRouteBelowTwo
    /\ [][useRoute_effect /\ Len(waypoints) < 2
            => /\ Len(fetches') = Len(fetches)
               /\ \A i \in DOMAIN fetches' : fetches'[i].cancelled]_vars

\* one waypoint is left of a sequence whose getRoute() is still awaited,
\* and no route is shown
C21_Witness ==
    /\ ~stale
    /\ Len(waypoints) = 1
    /\ Len(fetches) = 1
    /\ fetches[1].cancelled
    /\ route = NullRoute

DoublePrice(s) == [s EXCEPT !.pricePerGallon = 2 * @]
DoubleMpg(s) == [s EXCEPT !.mpg = 2 * @]

Positive(s) == s.mpg > 0 /\ s.pricePerGallon > 0

\* the example: 100 miles at 25 mpg and $3.50 cost $14.00, $28.00 at
\* $7.00 and $7.00 at 50 mpg
C23_Example ==
    /\ calculateFuelCost(100, DEFAULT_SETTINGS) = Ratio(1400, 1)
    /\ calculateFuelCost(100, DoublePrice(DEFAULT_SETTINGS)) = Ratio(2800, 1)
    /\ calculateFuelCost(100, DoubleMpg(DEFAULT_SETTINGS)) = Ratio(700, 1)

\* C23 as stated: for positive settings, doubling pricePerGallon exactly
\* doubles the rounded cost and doubling mpg exactly halves it
C23_ExactlyLinear ==
    /\ C23_Example
    /\ costCall.called /\ Positive(costCall.settings)
         => LET d == costCall.distanceInMiles
                st == costCall.settings
            IN /\ calculateFuelCost(d, DoublePrice(st)).num
                    = 2 * costCall.fuelCost.num
               /\ 2 * calculateFuelCost(d, DoubleMpg(st)).num
                    = costCall.fuelCost.num

\* C23, amended: for positive settings, the rounded cost at twice the
\* price is within one cent of twice the rounded cost, and twice the
\* rounded cost at twice the mpg is within one cent of the rounded cost;
\* both are exact in the example
C23_LinearWithinACent ==
    /\ C23_Example
    /\ costCall.called /\ Positive(costCall.settings)
         => LET d == costCall.distanceInMiles
                st == costCall.settings
                byPrice == calculateFuelCost(d, DoublePrice(st)).num
                             - 2 * costCall.fuelCost.num
                byMpg == 2 * calculateFuelCost(d, DoubleMpg(st)).num
                           - costCall.fuelCost.num
            IN /\ byPrice \in -1..1
               /\ byMpg \in -1..1

\* a cost whose half is not a whole number of cents: 1 mile at 10 mpg
\* and $3.50 costs $0.35, and $0.18 at 20 mpg
C23_Witness ==
    /\ costCall.called
    /\ costCall.distanceInMiles = 1
    /\ costCall.settings = [mpg |-> 10, pricePerGallon |-> 350]
    /\ costCall.fuelCost = Ratio(35, 1)
    /\ calculateFuelCost(1, DoubleMpg(costCall.settings)) = Ratio(18, 1)

\* ranked is a permutation of the provider's suggestions
IsPermutation(data, ranked) ==
    /\ Len(ranked) = Len(data)
    /\ \A i \in DOMAIN data :
          \E j \in DOMAIN ranked :
              /\ ranked[j].mapboxId = data[i].mapbox_id
              /\ ranked[j].featureType = data[i].feature_type
    /\ \A j, k \in DOMAIN ranked :
          ranked[j].mapboxId = ranked[k].mapboxId => j = k

\* place < region < postcode < address < any other type
Rank(featureType) ==
    CASE featureType = "place" -> 0
      [] featureType = "region" -> 1
      [] featureType = "postcode" -> 2
      [] featureType = "address" -> 3
      [] OTHER -> 4

\* in ranked the types ascend, and suggestions of equal rank stand in
\* the provider's order (mapbox_id counts the provider's order)
IsRanked(ranked) ==
    \A j, k \in DOMAIN ranked :
        j < k =>
          /\ Rank(ranked[j].featureType) <= Rank(ranked[k].featureType)
          /\ Rank(ranked[j].featureType) = Rank(ranked[k].featureType)
               => ranked[j].mapboxId < ranked[k].mapboxId
          /\ ~(ranked[j].featureType = "poi" /\ ranked[k].featureType = "place")

\* C24: what getSuggestions returns is a permutation of the provider's
\* suggestions in the order place, region, postcode, address, others,
\* suggestions of the same type in the provider's order; every place
\* precedes every POI
C24_StableRanking ==
    [][Len(search'.requests) < Len(search.requests) /\ search'.data.ok
        => /\ IsPermutation(search'.data.suggestions, search'.suggestions)
           /\ IsRanked(search'.suggestions)]_vars

\* the provider listed a POI before a place, and the place is shown
\* first
C24_Witness ==
    /\ search.data = Answered(<<[mapbox_id |-> 1, feature_type |-> "poi"],
                                [mapbox_id |-> 2, feature_type |-> "place"]>>)
    /\ search.suggestions = <<[mapboxId |-> 2, featureType |-> "place"],
                              [mapboxId |-> 1, featureType |-> "poi"]>>

\* C29: emptying the query (an empty input, the clear button, a
\* completed selection) empties the suggestion list, and the list then
\* stays empty for as long as the query stays empty, whatever timer or
\* request was pending
C29_ClearedStaysEmpty ==
    [][/\ ( \/ \E value \in Queries :
                  trim(value) = "" /\ handleSearchChange(value)
            \/ handleClear
            \/ handleSelectSuggestion_then(TRUE) )
          => search'.suggestions = <<>>
       /\ ( /\ trim(search.query) = ""
            /\ search.suggestions = <<>>
            /\ trim(search'.query) = "" )
          => search'.suggestions = <<>>]_vars

\* a coordinate within limit degrees of zero, on either side
Within(x, limit) == x.deg < limit \/ (x.deg = limit /\ x.nano = 0)

\* a stored waypoint within the valid ranges
InRange(w) == Within(w.longitude, 180) /\ Within(w.latitude, 90)

\* C25: every stored waypoint has -180 <= longitude <= 180 and
\* -90 <= latitude <= 90, whatever coordinates create, update and
\* addWaypoint were called with
C25_StoredInRange == \A w \in dbWaypoints : InRange(w)

\* the call in slot c stores its waypoint in this step
Appends(c) ==
    /\ calls[c].pc = "createWaypoint"
    /\ calls'[c].pc = "done"
    /\ calls'[c].result.status = "ok"

\* the step adds exactly the waypoint w to the route, after every waypoint
\* the route had: at the highest position + 1, or at 0 on an empty route,
\* and last in what routes.get reads
AppendsLast(routeId) ==
    LET existing == { w \in dbWaypoints : w.route_id = routeId }
        added == dbWaypoints' \ dbWaypoints
    IN /\ dbWaypoints \subseteq dbWaypoints'
       /\ Cardinality(added) = 1
       /\ \A w \in added :
            /\ w.route_id = routeId
            /\ existing = {} => w.position = 0
            /\ existing # {} =>
                  /\ \E last \in existing : w.position = last.position + 1
                  /\ \A e \in existing : e.position < w.position
            /\ \A rows \in OrderedByPosition(
                               { x \in dbWaypoints' : x.route_id = routeId }) :
                  rows[Len(rows)] = w

\* an addWaypoint call on a route the caller does not own returns a
\* failure at once and stores nothing
NonOwnerAddsNothing ==
    \A c \in Slots, user \in Callers, routeId \in RouteIds,
       wp \in WaypointInputs :
        /\ routes_addWaypoint(c, user, routeId, wp)
        /\ ~ \E r \in dbRoutes : r.id = routeId /\ r.user_id = user
        => /\ dbWaypoints' = dbWaypoints
           /\ calls'[c].pc = "done"
           /\ calls'[c].result.status # "ok"

\* C26: addWaypoint by the route's owner inserts exactly one waypoint, at
\* max(existing positions) + 1, or at 0 on a route without waypoints, so
\* that reading the route returns it last; addWaypoint by anyone else
\* inserts nothing
C26_AddWaypointAppends ==
    [][/\ \A c \in Slots : Appends(c) => AppendsLast(calls[c].id)
       /\ NonOwnerAddsNothing]_vars

\* an owner's addWaypoint has stored a waypoint after an existing one
C26_Witness ==
    \E c \in Slots :
        /\ calls[c].op = "addWaypoint"
        /\ calls[c].result.status = "ok"
        /\ calls[c].result.waypoints[1].position = 1
        /\ Cardinality(getWaypointsByRouteId(
                            calls[c].result.waypoints[1].route_id)) = 2

\* the waypoint a returned addWaypoint call has stored
Added(c) == calls[c].result.waypoints[1]

\* slot c holds the response of an addWaypoint call that stored its
\* waypoint
HasAdded(c) ==
    /\ calls[c].op = "addWaypoint"
    /\ calls[c].pc = "done"
    /\ calls[c].result.status = "ok"

\* C27: two addWaypoint calls by the owner on the same route, however
\* their reads and inserts interleave, leave their two new waypoints at
\* distinct positions
C27_ConcurrentAddsDistinct ==
    \A c, d \in ConcurrentSlots :
        /\ c # d
        /\ HasAdded(c) /\ HasAdded(d)
        /\ Added(c).route_id = Added(d).route_id
        /\ {Added(c), Added(d)} \subseteq dbWaypoints
        => Added(c).position # Added(d).position

\* the waypoint's name is a label of the place it is at now
NamedForItsPlace(w) == w.name \in reverseGeocode(w.lng, w.lat)

\* the waypoint shares its id with no other waypoint of the sequence
SingleId(i) ==
    \A j \in DOMAIN waypoints : waypoints[j].id = waypoints[i].id => j = i

\* C28: once every name lookup has been answered, each waypoint carries
\* the label of its current coordinates, in whatever order the answers
\* of its add-time lookup and of its drags' lookups arrived
C28_NoStaleName ==
    lookups = <<>> =>
        \A i \in DOMAIN waypoints :
            SingleId(i) => NamedForItsPlace(waypoints[i])

\* C30: no stored waypoint carries the placeholder name '...', whether
\* the name lookup of the waypoint saved was pending, answered or failed
C30_PlaceholderNeverStored ==
    \A w \in dbWaypoints : w.name # Placeholder
====
